---- MODULE Spec2Model ----
(***************************************************************************)
(* Trajectory replay engine (src/src/environments/replay.py,               *)
(* TaskStepExecutor): the run loop, the step dispatch, the navigation and  *)
(* action handlers, and the pure targeting / classification helpers.       *)
(*                                                                         *)
(* Strings are sequences of symbols.  A symbol is one character, or a word *)
(* of characters none of which any operation of the program tells apart    *)
(* ("state", "submit-btn").  URLs are written character by character.      *)
(*                                                                         *)
(* JSON values (payloads and their fields) are tagged records, so that the *)
(* isinstance tests of the code are tests of the tag.                      *)
(***************************************************************************)
EXTENDS Integers, Sequences, FiniteSets, TLC

(***************************************************************************)
(* JSON values.                                                            *)
(***************************************************************************)
Null == [t |-> "null"]

Num(n) == [t |-> "num", v |-> n]

Str(s) == [t |-> "str", v |-> s]

Dict(f) == [t |-> "dict", v |-> f]

EmptyDict == [t |-> "dict", v |-> <<>>]

IsDict(p) == p.t = "dict"

IsNum(p) == p.t = "num"

\* dict.get(key): the value, or None
Get(d, k) == IF k \in DOMAIN d.v THEN d.v[k] ELSE Null

\* payload.get(key) if isinstance(payload, dict) else None
SafeGet(p, k) == IF IsDict(p) THEN Get(p, k) ELSE Null

\* Python truth value of a JSON value
Truthy(p) ==
    CASE p.t = "null" -> FALSE
      [] p.t = "str" -> p.v # <<>>
      [] p.t = "num" -> p.v # 0
      [] p.t = "dict" -> DOMAIN p.v # {}
      [] OTHER -> TRUE

\* str(value) of a string or a number
PyStr(p) == IF p.t = "str" THEN p.v ELSE <<ToString(p.v)>>

(***************************************************************************)
(* String helpers (Python str methods used by the code).                   *)
(***************************************************************************)
\* s.find(c, from) with 1-based positions; 0 when absent
RECURSIVE Find(_, _, _)
Find(s, c, from) ==
    IF from > Len(s) THEN 0
    ELSE IF s[from] = c THEN from
    ELSE Find(s, c, from + 1)

\* s[from:] with a 1-based first position
Tail_(s, from) == IF from > Len(s) THEN <<>> ELSE SubSeq(s, from, Len(s))

\* s.split(sep, maxsplit) for a one-symbol separator
RECURSIVE Split(_, _, _)
Split(s, sep, maxsplit) ==
    LET i == Find(s, sep, 1) IN
    IF maxsplit = 0 \/ i = 0 THEN <<s>>
    ELSE <<SubSeq(s, 1, i - 1)>> \o Split(Tail_(s, i + 1), sep, maxsplit - 1)

\* s.rstrip(c)
RECURSIVE RStrip(_, _)
RStrip(s, c) ==
    IF s # <<>> /\ s[Len(s)] = c THEN RStrip(SubSeq(s, 1, Len(s) - 1), c) ELSE s

\* s.endswith(suffix)
EndsWith(s, suffix) ==
    /\ Len(suffix) <= Len(s)
    /\ SubSeq(s, Len(s) - Len(suffix) + 1, Len(s)) = suffix

UpperCase == {"A", "B", "H", "L", "M", "P", "S", "T", "D", "I", "V"}

LowerOf(c) ==
    CASE c = "A" -> "a" [] c = "B" -> "b" [] c = "H" -> "h" [] c = "L" -> "l"
      [] c = "M" -> "m" [] c = "P" -> "p" [] c = "S" -> "s" [] c = "T" -> "t"
      [] c = "D" -> "d" [] c = "I" -> "i" [] c = "V" -> "v"
      [] c = "DIV" -> "div" [] c = "FORM" -> "form"
      [] OTHER -> c

\* s.lower()
Lower(s) == [i \in 1..Len(s) |-> LowerOf(s[i])]

WhiteSpace == {" ", "\t", "\n", "\r", "\f"}

\* s.split(): the maximal runs of non-whitespace symbols
RECURSIVE SplitWs(_, _)
SplitWs(s, cur) ==
    IF s = <<>> THEN (IF cur = <<>> THEN <<>> ELSE <<cur>>)
    ELSE IF s[1] \in WhiteSpace
         THEN (IF cur = <<>> THEN <<>> ELSE <<cur>>) \o SplitWs(Tail(s), <<>>)
         ELSE SplitWs(Tail(s), Append(cur, s[1]))

\* "".join(parts)
RECURSIVE Concat(_)
Concat(parts) == IF parts = <<>> THEN <<>> ELSE parts[1] \o Concat(Tail(parts))

(***************************************************************************)
(* _split_event_type                                                       *)
(***************************************************************************)
\* faulty variant: split(":") without the limit, the first three parts kept
_split_event_type_unlimited(event_type) ==
    LET parts == Split(event_type, ":", -1) IN
    IF Len(parts) = 1 THEN <<parts[1], <<>>, <<>>>>
    ELSE IF Len(parts) = 2 THEN <<parts[1], parts[2], <<>>>>
    ELSE <<parts[1], parts[2], parts[3]>>

_split_event_type(event_type) ==
    LET parts == Split(event_type, ":", 2) IN
    IF Len(parts) = 1 THEN <<parts[1], <<>>, <<>>>>
    ELSE IF Len(parts) = 2 THEN <<parts[1], parts[2], <<>>>>
    ELSE <<parts[1], parts[2], parts[3]>>

(***************************************************************************)
(* URLs: urllib.parse.urlparse, _urls_differ, _is_spa_route_change         *)
(***************************************************************************)
AboutBlank == <<"a", "b", "o", "u", "t", ":", "b", "l", "a", "n", "k">>

\* the characters urlsplit accepts in a scheme
SchemeChars ==
    {"a", "b", "g", "h", "k", "l", "m", "n", "o", "p", "s", "t", "u", "+", "-", "."}
        \cup UpperCase

Letters == SchemeChars \ {"+", "-", "."}

\* the least position >= from of one of "/", "?", "#"; Len + 1 when none
RECURSIVE NetlocEnd(_, _)
NetlocEnd(s, from) ==
    IF from > Len(s) THEN Len(s) + 1
    ELSE IF s[from] \in {"/", "?", "#"} THEN from
    ELSE NetlocEnd(s, from + 1)

urlparse(url) ==
    LET i == Find(url, ":", 1)
        hasScheme ==
            /\ i > 1
            /\ url[1] \in Letters
            /\ \A j \in 1..(i - 1) : url[j] \in SchemeChars
        scheme == IF hasScheme THEN Lower(SubSeq(url, 1, i - 1)) ELSE <<>>
        u1 == IF hasScheme THEN Tail_(url, i + 1) ELSE url
        hasNetloc == Len(u1) >= 2 /\ u1[1] = "/" /\ u1[2] = "/"
        delim == NetlocEnd(u1, 3)
        netloc == IF hasNetloc THEN SubSeq(u1, 3, delim - 1) ELSE <<>>
        u2 == IF hasNetloc THEN Tail_(u1, delim) ELSE u1
        h == Find(u2, "#", 1)
        fragment == IF h > 0 THEN Tail_(u2, h + 1) ELSE <<>>
        u3 == IF h > 0 THEN SubSeq(u2, 1, h - 1) ELSE u2
        q == Find(u3, "?", 1)
        query == IF q > 0 THEN Tail_(u3, q + 1) ELSE <<>>
        path == IF q > 0 THEN SubSeq(u3, 1, q - 1) ELSE u3
    IN [scheme |-> scheme, netloc |-> netloc, path |-> path,
        query |-> query, fragment |-> fragment]

\* faulty variant: the URLs are compared as they are, trailing slashes included
_urls_differ_exact(current, target) ==
    IF current = <<>> THEN TRUE ELSE current # target

_urls_differ(current, target) ==
    IF current = <<>> THEN TRUE
    ELSE RStrip(current, "/") # RStrip(target, "/")

static_extensions ==
    { <<".", "h", "t", "m", "l">>, <<".", "h", "t", "m">>, <<".", "p", "h", "p">>,
      <<".", "a", "s", "p">>, <<".", "j", "s", "p">> }

\* faulty variant: the static-extension test is left out
_is_spa_route_change_any_path(current_url, target_url) ==
    IF current_url = <<>> \/ current_url = AboutBlank THEN FALSE
    ELSE
        LET current == urlparse(current_url)
            target == urlparse(target_url)
        IN  ~(current.scheme # target.scheme \/ current.netloc # target.netloc)

\* faulty variant: the test for an empty or about:blank current URL is left out
_is_spa_route_change_no_blank_test(current_url, target_url) ==
    LET current == urlparse(current_url)
        target == urlparse(target_url)
        target_path == Lower(target.path)
    IN  IF current.scheme # target.scheme \/ current.netloc # target.netloc
        THEN FALSE
        ELSE IF current.path = target.path /\ current.query = target.query
        THEN TRUE
        ELSE ~(\E ext \in static_extensions : EndsWith(target_path, ext))

_is_spa_route_change(current_url, target_url) ==
    IF current_url = <<>> \/ current_url = AboutBlank THEN FALSE
    ELSE
        LET current == urlparse(current_url)
            target == urlparse(target_url)
            target_path == Lower(target.path)
        IN  IF current.scheme # target.scheme \/ current.netloc # target.netloc
            THEN FALSE
            ELSE IF /\ current.scheme = target.scheme
                    /\ current.netloc = target.netloc
                    /\ current.path = target.path
                    /\ current.query = target.query
            THEN TRUE
            ELSE IF \E ext \in static_extensions : EndsWith(target_path, ext)
            THEN FALSE
            ELSE TRUE

(***************************************************************************)
(* Payload targeting: _css_escape, _build_selector, _is_valid_point,       *)
(* _extract_coordinates                                                    *)
(***************************************************************************)
CSS_ESCAPE_MAP(ch) ==
    CASE ch = "\n" -> <<"\\", "A", " ">>
      [] ch = "\r" -> <<>>
      [] ch = "\f" -> <<"\\", "C", " ">>
      [] ch = "\t" -> <<" ">>
      [] ch = " " -> <<" ">>
      [] ch = "\"" -> <<"\\", "\"">>
      [] ch = "'" -> <<"\\", "'">>
      [] ch = "#" -> <<"\\", "#">>
      [] ch = ":" -> <<"\\", ":">>
      [] OTHER -> <<ch>>

_css_escape(value) == Concat([i \in 1..Len(value) |-> CSS_ESCAPE_MAP(value[i])])

\* Optional[str]: Null, or Str(selector)
_build_selector(payload) ==
    LET element_id == SafeGet(payload, "id")
        class_name == SafeGet(payload, "className")
        tag == SafeGet(payload, "tag")
        parts == SplitWs(PyStr(class_name), <<>>)
        classes == [i \in 1..Len(parts) |-> _css_escape(parts[i])]
        prefix == IF Truthy(tag) THEN Lower(tag.v) ELSE <<"*">>
    IN  IF Truthy(element_id) THEN Str(<<"#">> \o _css_escape(PyStr(element_id)))
        ELSE IF Truthy(class_name) /\ classes # <<>>
        THEN Str(prefix \o Concat([i \in 1..Len(classes) |-> <<".">> \o classes[i]]))
        ELSE Null

_is_valid_point(point) ==
    IsDict(point) /\ IsNum(Get(point, "x")) /\ IsNum(Get(point, "y"))

Point(x, y) == [t |-> "point", x |-> x, y |-> y]

\* the exception a handler lets escape (TypeError on a non-numeric operand)
Raised == [t |-> "raise"]

\* faulty variant: the loop does not return at the first valid point, the last one wins
FirstValidLast(coords, keys) ==
    LET ok == {i \in 1..Len(keys) : _is_valid_point(Get(coords, keys[i]))}
    IN  IF ok = {} THEN 0 ELSE CHOOSE i \in ok : \A j \in ok : i >= j

\* the first of the keys whose point is valid, in the order given; 0 when none
FirstValid(coords, keys) ==
    LET ok == {i \in 1..Len(keys) : _is_valid_point(Get(coords, keys[i]))}
    IN  IF ok = {} THEN 0 ELSE CHOOSE i \in ok : \A j \in ok : i <= j

\* Optional[Tuple[float, float]]: Null, or Point(x, y).  width / 2 is taken on
\* even widths and heights, where the float quotient is the integer one.
_extract_coordinates(payload) ==
    LET coords == SafeGet(payload, "coordinates")
        keys == <<"client", "page", "offset">>
        k == IF IsDict(coords) THEN FirstValid(coords, keys) ELSE 0
        relative == IF IsDict(coords) THEN Get(coords, "relative") ELSE Null
        cv == IF IsDict(coords) THEN Get(coords, "viewport") ELSE Null
        viewport == IF Truthy(cv) THEN cv ELSE SafeGet(payload, "viewport")
        x == SafeGet(payload, "x")
        y == SafeGet(payload, "y")
        rect == SafeGet(payload, "elementRect")
        left == Get(rect, "left")
        top == Get(rect, "top")
        width == IF "width" \in DOMAIN rect.v THEN rect.v["width"] ELSE Num(0)
        height == IF "height" \in DOMAIN rect.v THEN rect.v["height"] ELSE Num(0)
    IN  IF k # 0
        THEN Point(Get(coords, keys[k]).v["x"].v, Get(coords, keys[k]).v["y"].v)
        ELSE IF /\ IsDict(coords)
                /\ _is_valid_point(relative)
                /\ IsDict(viewport)
                /\ IsNum(Get(viewport, "width"))
                /\ IsNum(Get(viewport, "height"))
        THEN Point(relative.v["x"].v * viewport.v["width"].v,
                   relative.v["y"].v * viewport.v["height"].v)
        ELSE IF IsNum(x) /\ IsNum(y) THEN Point(x.v, y.v)
        ELSE IF IsDict(rect) /\ IsNum(left) /\ IsNum(top)
        THEN IF IsNum(width) /\ IsNum(height)
             THEN Point(left.v + width.v \div 2, top.v + height.v \div 2)
             ELSE Raised
        ELSE Null

(***************************************************************************)
(* The replay session.                                                     *)
(*                                                                         *)
(*   trajectory, run_human_trajectory   the constructor's arguments        *)
(*   initial_navigation_done            TaskStepExecutor's flag            *)
(*   page_url                           page.url of the browser            *)
(*   status                             NotStarted, Running, Completed,    *)
(*                                      StoppedOnError                     *)
(*   idx                                the position of run()'s for loop   *)
(*   pc                                 the await the coroutine is at      *)
(*   events                             every browser call and every sleep *)
(*                                      issued so far, with its outcome    *)
(*   dispatched                         the steps handed to _run_step      *)
(***************************************************************************)
VARIABLES trajectory, run_human_trajectory, initial_navigation_done, page_url,
          status, idx, pc, events, dispatched

vars == <<trajectory, run_human_trajectory, initial_navigation_done, page_url,
          status, idx, pc, events, dispatched>>

args == <<trajectory, run_human_trajectory>>

HumanPacingMs == 200

DefaultPacingMs == 100

ClickSettleMs == 100

SpaSettleMs == 300

SelectorTimeoutMs == 5000

FallbackTimeoutMs == 2000

LoadTimeoutMs == 15000

Step == trajectory[idx]

payload == Step.event_data_json

\* a browser call as it is issued: no outcome yet
Call(op, target, arg, x, y, ms) ==
    [step |-> idx, op |-> op, target |-> target, arg |-> arg, x |-> x, y |-> y,
     ms |-> ms, res |-> "pending", n |-> 0]

\* asyncio.sleep(ms / 1000); why tells the pacing sleep of run() from the settle
\* sleeps of the handlers
Sleep(ms, why) ==
    [step |-> idx, op |-> "sleep", target |-> <<>>, arg |-> <<why>>, x |-> 0, y |-> 0,
     ms |-> ms, res |-> "ok", n |-> 0]

\* the calls the browser has not answered yet
Pending == {i \in DOMAIN events : events[i].res = "pending"}

\* `await`: the coroutine goes on when the call it issued has returned
Awaited == Pending = {}

Last == events[Len(events)]

Issue(call, next) ==
    /\ events' = Append(events, call)
    /\ pc' = next

\* faulty variant: the except branch logs the exception and the loop goes on
RaiseAndContinue ==
    /\ status' = "StoppedOnError"
    /\ pc' = "pace"

\* an exception leaves _run_step: run() logs it and returns
Raise ==
    /\ status' = "StoppedOnError"
    /\ pc' = "done"

\* _run_step returns: run() goes on to its pacing sleep
Return == pc' = "pace"

SubmitButtons == <<"button[type=submit], input[type=submit]">>

Focused == <<":focus">>

FirstForm == <<"form">>

Enter == <<"Enter">>

\* _handle_user_action: the handler an action name selects
_handle_user_action(action) ==
    CASE action = <<"click">> -> "click"
      [] action = <<"hover">> -> "hover"
      [] action = <<"scroll">> -> "scroll"
      [] action = <<"input">> -> "input"
      [] action = <<"keydown">> -> "keydown"
      [] action = <<"submit">> -> "submit"
      [] OTHER -> "pace"

\* faulty variant: an action step goes to the user-action handler whatever its subject
_run_step_any_subject(step) ==
    LET cls == _split_event_type(step.event_type)
        category == cls[1]
        action == cls[3]
    IN  IF category = <<"state">> THEN "state"
        ELSE IF category = <<"action">> THEN _handle_user_action(action)
        ELSE "pace"

\* _run_step: the handler a step is dispatched to
_run_step(step) ==
    LET cls == _split_event_type(step.event_type)
        category == cls[1]
        subject == cls[2]
        action == cls[3]
    IN  IF category = <<"state">> THEN "state"
        ELSE IF category = <<"action">> /\ subject = <<"user">>
        THEN _handle_user_action(action)
        ELSE "pace"

\* faulty variant: the flag is preset on any page whose URL is not empty
RunPresetAnyUrl ==
    /\ pc = "start"
    /\ initial_navigation_done' =
           IF page_url # <<>> THEN TRUE ELSE initial_navigation_done
    /\ status' = "Running"
    /\ pc' = "loop"
    /\ UNCHANGED <<args, page_url, idx, events, dispatched>>

\* run(), lines 25-27: the flag is preset on a page that already shows a URL
Run ==
    /\ pc = "start"
    /\ initial_navigation_done' =
           IF page_url # <<>> /\ page_url # AboutBlank THEN TRUE
           ELSE initial_navigation_done
    /\ status' = "Running"
    /\ pc' = "loop"
    /\ UNCHANGED <<args, page_url, idx, events, dispatched>>

\* faulty variant: a step no handler recognises is passed over with `continue`, unpaced
NextStepUnpaced ==
    /\ pc = "loop"
    /\ idx <= Len(trajectory)
    /\ dispatched' = Append(dispatched, idx)
    /\ IF _run_step(Step) = "pace"
       THEN idx' = idx + 1 /\ pc' = "loop"
       ELSE idx' = idx /\ pc' = _run_step(Step)
    /\ UNCHANGED <<args, initial_navigation_done, page_url, status, events>>

\* the for loop takes the next step and awaits _run_step
NextStep ==
    /\ pc = "loop"
    /\ idx <= Len(trajectory)
    /\ dispatched' = Append(dispatched, idx)
    /\ pc' = _run_step(Step)
    /\ UNCHANGED <<args, initial_navigation_done, page_url, status, idx, events>>

\* faulty variant: an exhausted loop goes back to the first step of the trajectory
FinishRestart ==
    /\ pc = "loop"
    /\ idx > Len(trajectory)
    /\ idx' = 1
    /\ pc' = "loop"
    /\ events' = <<>>
    /\ dispatched' = <<>>
    /\ UNCHANGED <<args, initial_navigation_done, page_url, status>>

\* the for loop is exhausted: run() returns
Finish ==
    /\ pc = "loop"
    /\ idx > Len(trajectory)
    /\ status' = "Completed"
    /\ pc' = "done"
    /\ UNCHANGED <<args, initial_navigation_done, page_url, idx, events, dispatched>>

\* faulty variant: the loop does not advance: the same step is dispatched again
PacingSleepNoAdvance ==
    /\ pc = "pace"
    /\ events' = Append(events,
           Sleep(IF run_human_trajectory THEN HumanPacingMs ELSE DefaultPacingMs,
                 "pacing"))
    /\ idx' = idx
    /\ pc' = "loop"
    /\ UNCHANGED <<args, initial_navigation_done, page_url, status, dispatched>>

\* faulty variant: the two pacing delays are swapped
PacingSleepSwapped ==
    /\ pc = "pace"
    /\ events' = Append(events,
           Sleep(IF run_human_trajectory THEN DefaultPacingMs ELSE HumanPacingMs,
                 "pacing"))
    /\ idx' = idx + 1
    /\ pc' = "loop"
    /\ UNCHANGED <<args, initial_navigation_done, page_url, status, dispatched>>

\* run(), lines 41-42: the pacing sleep, then the next iteration
PacingSleep ==
    /\ pc = "pace"
    /\ events' = Append(events,
           Sleep(IF run_human_trajectory THEN HumanPacingMs ELSE DefaultPacingMs,
                 "pacing"))
    /\ idx' = idx + 1
    /\ pc' = "loop"
    /\ UNCHANGED <<args, initial_navigation_done, page_url, status, dispatched>>

(***************************************************************************)
(* Navigation handler: _handle_state_step, _perform_spa_navigation,        *)
(* _safe_goto, _safe_wait_for_load                                         *)
(***************************************************************************)
Goto(url) == Call("goto", url, <<"domcontentloaded">>, 0, 0, 0)

_handle_state_step ==
    /\ pc = "state"
    /\ LET cls == _split_event_type(Step.event_type)
           subject == cls[2]
           action == cls[3]
           url == SafeGet(payload, "url")
       IN  IF subject = <<"browser">> /\ action = <<"navigated">>
           THEN IF ~Truthy(url) \/ url.v = AboutBlank
                THEN Return /\ UNCHANGED events
                ELSE IF ~initial_navigation_done \/ _urls_differ(page_url, url.v)
                THEN IF _is_spa_route_change(page_url, url.v)
                     THEN Issue(Call("evaluate_pushState", url.v, <<>>, 0, 0, 0), "spa")
                     ELSE Issue(Goto(url.v), "goto")
                ELSE Return /\ UNCHANGED events
           ELSE IF subject = <<"page">>
                   /\ action \in {<<"domcontentloaded">>, <<"domcontentload">>}
           THEN Issue(Call("wait_for_load_state", <<>>, <<"domcontentloaded">>,
                           0, 0, LoadTimeoutMs), "load")
           ELSE IF subject = <<"page">> /\ action \in {<<"loaded">>, <<"load">>}
           THEN Issue(Call("wait_for_load_state", <<>>, <<"load">>,
                           0, 0, LoadTimeoutMs), "load")
           ELSE Return /\ UNCHANGED events
    /\ UNCHANGED <<args, initial_navigation_done, page_url, status, idx, dispatched>>

\* faulty variant: a failed evaluate is logged and the handler returns, no fallback
_perform_spa_navigation_no_fallback ==
    /\ pc = "spa"
    /\ Awaited
    /\ IF Last.res = "ok"
       THEN events' = Append(events, Sleep(SpaSettleMs, "settle"))
       ELSE UNCHANGED events
    /\ initial_navigation_done' = TRUE
    /\ Return
    /\ UNCHANGED <<args, page_url, status, idx, dispatched>>

\* _perform_spa_navigation after its evaluate: the settle sleep, or the fallback
_perform_spa_navigation ==
    /\ pc = "spa"
    /\ Awaited
    /\ IF Last.res = "ok"
       THEN /\ events' = Append(events, Sleep(SpaSettleMs, "settle"))
            /\ initial_navigation_done' = TRUE
            /\ Return
       ELSE /\ Issue(Goto(Last.target), "goto")
            /\ UNCHANGED initial_navigation_done
    /\ UNCHANGED <<args, page_url, status, idx, dispatched>>

\* faulty variant: page.goto outside the try block: its exception propagates
_safe_goto_unguarded ==
    /\ pc = "goto"
    /\ Awaited
    /\ IF Last.res = "ok"
       THEN initial_navigation_done' = TRUE /\ Return /\ UNCHANGED status
       ELSE Raise /\ UNCHANGED initial_navigation_done
    /\ UNCHANGED <<args, page_url, idx, events, dispatched>>

\* faulty variant: the flag is set only when page.goto succeeded
_safe_goto_flag_on_success ==
    /\ pc = "goto"
    /\ Awaited
    /\ initial_navigation_done' = (initial_navigation_done \/ Last.res = "ok")
    /\ Return
    /\ UNCHANGED status
    /\ UNCHANGED <<args, page_url, idx, events, dispatched>>

\* _safe_goto after page.goto: every exception is logged and swallowed
_safe_goto ==
    /\ pc = "goto"
    /\ Awaited
    /\ initial_navigation_done' = TRUE
    /\ Return
    /\ UNCHANGED status
    /\ UNCHANGED <<args, page_url, idx, events, dispatched>>

\* _safe_wait_for_load after page.wait_for_load_state: likewise swallowed
_safe_wait_for_load ==
    /\ pc = "load"
    /\ Awaited
    /\ Return
    /\ UNCHANGED <<args, initial_navigation_done, page_url, status, idx, events,
                   dispatched>>

(***************************************************************************)
(* Action handlers                                                         *)
(***************************************************************************)
\* faulty variant: a click without a target returns instead of raising
_perform_pointer_click_lenient ==
    /\ pc = "click"
    /\ LET coords == _extract_coordinates(payload)
           selector == _build_selector(payload)
       IN  IF coords.t = "raise" THEN Raise /\ UNCHANGED events
           ELSE IF coords.t = "null"
           THEN IF Truthy(selector)
                THEN /\ Issue(Call("locator_click", selector.v, <<>>, 0, 0,
                                   SelectorTimeoutMs), "click_selector")
                     /\ UNCHANGED status
                ELSE Return /\ UNCHANGED <<events, status>>
           ELSE /\ Issue(Call("mouse_move", <<>>, <<>>, coords.x, coords.y, 0),
                         "click_move")
                /\ UNCHANGED status
    /\ UNCHANGED <<args, initial_navigation_done, page_url, idx, dispatched>>

_perform_pointer_click ==
    /\ pc = "click"
    /\ LET coords == _extract_coordinates(payload)
           selector == _build_selector(payload)
       IN  IF coords.t = "raise" THEN Raise /\ UNCHANGED events
           ELSE IF coords.t = "null"
           THEN IF Truthy(selector)
                THEN /\ Issue(Call("locator_click", selector.v, <<>>, 0, 0,
                                   SelectorTimeoutMs), "click_selector")
                     /\ UNCHANGED status
                ELSE Raise /\ UNCHANGED events
           ELSE /\ Issue(Call("mouse_move", <<>>, <<>>, coords.x, coords.y, 0),
                         "click_move")
                /\ UNCHANGED status
    /\ UNCHANGED <<args, initial_navigation_done, page_url, idx, dispatched>>

\* after locator.click: PlaywrightTimeoutError is logged and re-raised, any
\* other exception propagates as it is
ClickSelectorReturned ==
    /\ pc = "click_selector"
    /\ Awaited
    /\ IF Last.res = "ok" THEN Return /\ UNCHANGED status ELSE Raise
    /\ UNCHANGED <<args, initial_navigation_done, page_url, idx, events, dispatched>>

\* faulty variant: a failed move falls back to the selector click when there is a selector
ClickMoveReturnedFallback ==
    /\ pc = "click_move"
    /\ Awaited
    /\ IF Last.res = "ok"
       THEN /\ events' = events \o
                  << Sleep(ClickSettleMs, "settle"),
                     Call("mouse_click", <<>>, <<>>, Last.x, Last.y, 0) >>
            /\ pc' = "click_click"
            /\ UNCHANGED status
       ELSE IF Truthy(_build_selector(payload))
       THEN /\ Issue(Call("locator_click", _build_selector(payload).v, <<>>, 0, 0,
                          SelectorTimeoutMs), "click_selector")
            /\ UNCHANGED status
       ELSE Raise /\ UNCHANGED events
    /\ UNCHANGED <<args, initial_navigation_done, page_url, idx, dispatched>>

\* after mouse.move: the settle sleep and mouse.click
ClickMoveReturned ==
    /\ pc = "click_move"
    /\ Awaited
    /\ IF Last.res = "ok"
       THEN /\ events' = events \o
                  << Sleep(ClickSettleMs, "settle"),
                     Call("mouse_click", <<>>, <<>>, Last.x, Last.y, 0) >>
            /\ pc' = "click_click"
            /\ UNCHANGED status
       ELSE Raise /\ UNCHANGED events
    /\ UNCHANGED <<args, initial_navigation_done, page_url, idx, dispatched>>

ClickClickReturned ==
    /\ pc = "click_click"
    /\ Awaited
    /\ IF Last.res = "ok" THEN Return /\ UNCHANGED status ELSE Raise
    /\ UNCHANGED <<args, initial_navigation_done, page_url, idx, events, dispatched>>

\* faulty variant: a hover without coordinates raises, as a click without a target does
_perform_pointer_move_strict ==
    /\ pc = "hover"
    /\ LET coords == _extract_coordinates(payload)
       IN  IF coords.t \in {"raise", "null"} THEN Raise /\ UNCHANGED events
           ELSE /\ Issue(Call("mouse_move", <<>>, <<>>, coords.x, coords.y, 0),
                         "hover_move")
                /\ UNCHANGED status
    /\ UNCHANGED <<args, initial_navigation_done, page_url, idx, dispatched>>

_perform_pointer_move ==
    /\ pc = "hover"
    /\ LET coords == _extract_coordinates(payload)
       IN  IF coords.t = "raise" THEN Raise /\ UNCHANGED events
           ELSE IF coords.t = "null" THEN Return /\ UNCHANGED <<events, status>>
           ELSE /\ Issue(Call("mouse_move", <<>>, <<>>, coords.x, coords.y, 0),
                         "hover_move")
                /\ UNCHANGED status
    /\ UNCHANGED <<args, initial_navigation_done, page_url, idx, dispatched>>

HoverMoveReturned ==
    /\ pc = "hover_move"
    /\ Awaited
    /\ IF Last.res = "ok" THEN Return /\ UNCHANGED status ELSE Raise
    /\ UNCHANGED <<args, initial_navigation_done, page_url, idx, events, dispatched>>

\* payload.get is called without an isinstance guard: AttributeError on a
\* payload that is no mapping
_perform_scroll ==
    /\ pc = "scroll"
    /\ IF ~IsDict(payload) THEN Raise /\ UNCHANGED events
       ELSE LET x == Get(payload, "x")
                y == Get(payload, "y")
            IN  IF IsNum(x) /\ IsNum(y)
                THEN /\ Issue(Call("evaluate_scrollTo", <<>>, <<>>, x.v, y.v, 0),
                              "scroll_eval")
                     /\ UNCHANGED status
                ELSE Return /\ UNCHANGED <<events, status>>
    /\ UNCHANGED <<args, initial_navigation_done, page_url, idx, dispatched>>

ScrollReturned ==
    /\ pc = "scroll_eval"
    /\ Awaited
    /\ Return
    /\ UNCHANGED <<args, initial_navigation_done, page_url, status, idx, events,
                   dispatched>>

_perform_input ==
    /\ pc = "input"
    /\ LET value == SafeGet(payload, "value")
           selector == _build_selector(payload)
       IN  IF value.t = "null" THEN Return /\ UNCHANGED events
           ELSE IF Truthy(selector)
           THEN Issue(Call("locator_fill", selector.v, value.v, 0, 0,
                           SelectorTimeoutMs), "input_fill")
           ELSE Issue(Call("locator_count", Focused, <<>>, 0, 0, 0), "input_count")
    /\ UNCHANGED <<args, initial_navigation_done, page_url, status, idx, dispatched>>

\* faulty variant: the timeout of the selector fill is not caught
InputFillReturnedNoFallback ==
    /\ pc = "input_fill"
    /\ Awaited
    /\ IF Last.res = "ok" THEN Return /\ UNCHANGED status ELSE Raise
    /\ UNCHANGED <<args, initial_navigation_done, page_url, idx, events, dispatched>>

\* after locator.fill on the selector: only PlaywrightTimeoutError is caught
InputFillReturned ==
    /\ pc = "input_fill"
    /\ Awaited
    /\ CASE Last.res = "ok" -> Return /\ UNCHANGED <<events, status>>
         [] Last.res = "timeout" ->
                /\ Issue(Call("locator_count", Focused, <<>>, 0, 0, 0), "input_count")
                /\ UNCHANGED status
         [] OTHER -> Raise /\ UNCHANGED events
    /\ UNCHANGED <<args, initial_navigation_done, page_url, idx, dispatched>>

\* after count() on the focused element
InputCountReturned ==
    /\ pc = "input_count"
    /\ Awaited
    /\ IF Last.res = "ok" /\ Last.n > 0
       THEN /\ Issue(Call("locator_fill", Focused, SafeGet(payload, "value").v, 0, 0,
                          FallbackTimeoutMs), "input_focus_fill")
            /\ UNCHANGED status
       ELSE Raise /\ UNCHANGED events
    /\ UNCHANGED <<args, initial_navigation_done, page_url, idx, dispatched>>

\* faulty variant: a failed fill of the focused element is logged and the step returns
InputFocusFillReturnedSwallow ==
    /\ pc = "input_focus_fill"
    /\ Awaited
    /\ Return
    /\ UNCHANGED <<args, initial_navigation_done, page_url, status, idx, events,
                   dispatched>>

\* after fill on the focused element: any exception ends in "Input operation failed"
InputFocusFillReturned ==
    /\ pc = "input_focus_fill"
    /\ Awaited
    /\ IF Last.res = "ok" THEN Return /\ UNCHANGED status ELSE Raise
    /\ UNCHANGED <<args, initial_navigation_done, page_url, idx, events, dispatched>>

_perform_keydown ==
    /\ pc = "keydown"
    /\ LET key == SafeGet(payload, "key")
       IN  IF ~Truthy(key) THEN Return /\ UNCHANGED events
           ELSE Issue(Call("keyboard_press", <<>>, key.v, 0, 0, 0), "key_press")
    /\ UNCHANGED <<args, initial_navigation_done, page_url, status, idx, dispatched>>

\* after keyboard.press: on any exception the key is typed instead
KeyPressReturned ==
    /\ pc = "key_press"
    /\ Awaited
    /\ IF Last.res = "ok" THEN Return /\ UNCHANGED events
       ELSE Issue(Call("keyboard_type", <<>>, Last.arg, 0, 0, 0), "key_type")
    /\ UNCHANGED <<args, initial_navigation_done, page_url, status, idx, dispatched>>

KeyTypeReturned ==
    /\ pc = "key_type"
    /\ Awaited
    /\ IF Last.res = "ok" THEN Return /\ UNCHANGED status ELSE Raise
    /\ UNCHANGED <<args, initial_navigation_done, page_url, idx, events, dispatched>>

Count(target) == Call("locator_count", target, <<>>, 0, 0, 0)

Press(target) == Call("locator_press", target, Enter, 0, 0, FallbackTimeoutMs)

_perform_submit ==
    /\ pc = "submit"
    /\ LET selector == _build_selector(payload)
       IN  IF Truthy(selector) THEN Issue(Count(selector.v), "submit_form_count")
           ELSE Issue(Count(SubmitButtons), "submit_button_count")
    /\ UNCHANGED <<args, initial_navigation_done, page_url, status, idx, dispatched>>

\* faulty variant: every tactic in a try block of its own: an exception passes to the
\* next locator as an absent element does
SubmitChainPerTactic(at, act, nextTarget, next) ==
    /\ pc = at
    /\ Awaited
    /\ IF Last.res = "ok" /\ Last.n > 0 THEN Issue(act, "submit_act") /\ UNCHANGED status
       ELSE IF next = "raise" THEN Raise /\ UNCHANGED events
       ELSE Issue(Count(nextTarget), next) /\ UNCHANGED status
    /\ UNCHANGED <<args, initial_navigation_done, page_url, idx, dispatched>>

\* One step of the chain inside the try block, after a count() has returned:
\* an exception leaves the block (logged, re-raised); a found element is acted
\* on; an absent one passes to the next locator, or to the final raise.
SubmitChain(at, act, nextTarget, next) ==
    /\ pc = at
    /\ Awaited
    /\ IF Last.res # "ok" THEN Raise /\ UNCHANGED events
       ELSE IF Last.n > 0 THEN Issue(act, "submit_act") /\ UNCHANGED status
       ELSE IF next = "raise" THEN Raise /\ UNCHANGED events
       ELSE Issue(Count(nextTarget), next) /\ UNCHANGED status
    /\ UNCHANGED <<args, initial_navigation_done, page_url, idx, dispatched>>

SubmitFormCounted ==
    SubmitChain("submit_form_count", Press(Last.target), SubmitButtons,
                "submit_button_count")

SubmitButtonCounted ==
    SubmitChain("submit_button_count",
                Call("locator_click", SubmitButtons, <<>>, 0, 0, FallbackTimeoutMs),
                Focused, "submit_focus_count")

SubmitFocusCounted ==
    SubmitChain("submit_focus_count", Press(Focused), FirstForm, "submit_first_count")

SubmitFirstFormCounted ==
    SubmitChain("submit_first_count", Press(FirstForm), <<>>, "raise")

\* after the press or click of the tactic that found its element
SubmitActReturned ==
    /\ pc = "submit_act"
    /\ Awaited
    /\ IF Last.res = "ok" THEN Return /\ UNCHANGED status ELSE Raise
    /\ UNCHANGED <<args, initial_navigation_done, page_url, idx, events, dispatched>>

(***************************************************************************)
(* The browser (Playwright's Page): it answers the one call that is        *)
(* pending, with success, a PlaywrightTimeoutError or another exception,   *)
(* and page.url follows the navigations that succeed.                      *)
(***************************************************************************)
HttpH == <<"h", "t", "t", "p", ":", "/", "/", "h">>

UrlA == HttpH \o <<"/", "a">>

UrlASlash == UrlA \o <<"/">>

UrlBHtml == HttpH \o <<"/", "b", ".", "h", "t", "m", "l">>

UrlAQuery == UrlA \o <<"?", "q">>

UrlRelA == <<"/", "a">>

\* the URL the page shows once a navigation to url has succeeded: a relative
\* URL is resolved against the site the replay runs on
Resolve(url) ==
    IF url # <<>> /\ url[1] = "/" /\ urlparse(url).scheme = <<>>
    THEN HttpH \o url ELSE url

\* where a click may take the page
LinkTarget == UrlA

\* the calls Playwright bounds by a timeout (the one passed, or its default)
Timed ==
    {"goto", "wait_for_load_state", "locator_click", "locator_fill", "locator_press"}

Outcomes(op) ==
    IF op = "locator_count"
    THEN {[res |-> "ok", n |-> 0], [res |-> "ok", n |-> 1], [res |-> "error", n |-> 0]}
    ELSE IF op \in Timed
    THEN {[res |-> "ok", n |-> 0], [res |-> "timeout", n |-> 0],
          [res |-> "error", n |-> 0]}
    ELSE {[res |-> "ok", n |-> 0], [res |-> "error", n |-> 0]}

\* page.url once the call has returned: a navigation that succeeds shows its
\* target, a click that succeeds may follow a link
PageAfter(call, res) ==
    IF res = "ok" /\ call.op \in {"goto", "evaluate_pushState"}
    THEN {Resolve(call.target)}
    ELSE IF res = "ok" /\ call.op \in {"mouse_click", "locator_click"}
    THEN {page_url, LinkTarget}
    ELSE {page_url}

BrowserReturn ==
    /\ \E i \in Pending :
          \E r \in Outcomes(events[i].op) :
             /\ events' = [events EXCEPT ![i].res = r.res, ![i].n = r.n]
             /\ page_url' \in PageAfter(events[i], r.res)
    /\ UNCHANGED <<args, initial_navigation_done, status, idx, pc, dispatched>>

(***************************************************************************)
(* Trajectories                                                            *)
(***************************************************************************)
EventType(category, subject, action) == <<category, ":", subject, ":", action>>

StepOf(event_type, data) == [event_type |-> event_type, event_data_json |-> data]

Navigated(url) ==
    StepOf(EventType("state", "browser", "navigated"), Dict([url |-> Str(url)]))

NavigatedNoUrl == StepOf(EventType("state", "browser", "navigated"), EmptyDict)

PageLoad == StepOf(EventType("state", "page", "load"), EmptyDict)

UserAction(action, data) == StepOf(EventType("action", "user", action), data)

ClickNoTarget == UserAction("click", EmptyDict)

ClickById == UserAction("click", Dict([id |-> Str(<<"submit-btn">>)]))

ClickAt ==
    UserAction("click",
        Dict([coordinates |-> Dict([client |-> Dict([x |-> Num(10), y |-> Num(20)])]),
              id |-> Str(<<"submit-btn">>)]))

InputById ==
    UserAction("input", Dict([value |-> Str(<<"hello">>), id |-> Str(<<"name">>)]))

InputFocused == UserAction("input", Dict([value |-> Str(<<"hello">>)]))

SubmitById == UserAction("submit", Dict([id |-> Str(<<"login">>)]))

SubmitNoSelector == UserAction("submit", EmptyDict)

HoverAt == UserAction("hover", Dict([x |-> Num(10), y |-> Num(20)]))

ScrollTo == UserAction("scroll", Dict([x |-> Num(0), y |-> Num(300)]))

KeydownEnter == UserAction("keydown", Dict([key |-> Str(Enter)]))

Pool ==
    << Navigated(UrlASlash), Navigated(UrlAQuery), Navigated(UrlBHtml),
       NavigatedNoUrl, PageLoad,
       ClickNoTarget, ClickById, ClickAt,
       InputById, InputFocused,
       SubmitById, SubmitNoSelector,
       HoverAt, ScrollTo, KeydownEnter >>

MaxLen == 2

\* the two end-to-end trajectories of the spec's section 8
TrajFatalClick == <<Navigated(UrlRelA), ClickNoTarget, PageLoad>>

TrajSelectorClick == <<Navigated(UrlRelA), ClickById, PageLoad>>

Trajectories ==
    {TrajFatalClick, TrajSelectorClick} \cup
    UNION { {[i \in 1..n |-> Pool[f[i]]] : f \in [1..n -> 1..Len(Pool)]} : n \in 0..MaxLen }

\* the page run() is given: a fresh one, or one that already shows a document
InitialUrls == {AboutBlank, UrlA}

Init ==
    /\ trajectory \in Trajectories
    /\ run_human_trajectory \in BOOLEAN
    /\ initial_navigation_done = FALSE
    /\ page_url \in InitialUrls
    /\ status = "NotStarted"
    /\ idx = 1
    /\ pc = "start"
    /\ events = <<>>
    /\ dispatched = <<>>

Next ==
    \/ Run
    \/ NextStep
    \/ Finish
    \/ PacingSleep
    \/ _handle_state_step
    \/ _perform_spa_navigation
    \/ _safe_goto
    \/ _safe_wait_for_load
    \/ _perform_pointer_click
    \/ ClickSelectorReturned
    \/ ClickMoveReturned
    \/ ClickClickReturned
    \/ _perform_pointer_move
    \/ HoverMoveReturned
    \/ _perform_scroll
    \/ ScrollReturned
    \/ _perform_input
    \/ InputFillReturned
    \/ InputCountReturned
    \/ InputFocusFillReturned
    \/ _perform_keydown
    \/ KeyPressReturned
    \/ KeyTypeReturned
    \/ _perform_submit
    \/ SubmitFormCounted
    \/ SubmitButtonCounted
    \/ SubmitFocusCounted
    \/ SubmitFirstFormCounted
    \/ SubmitActReturned
    \/ BrowserReturn

Spec == Init /\ [][Next]_vars

(***************************************************************************)
(* Navigation alone: one navigated step from every current URL to every    *)
(* target URL, to exercise _urls_differ and _is_spa_route_change.          *)
(***************************************************************************)
UrlAFragment == UrlA \o <<"#", "f">>

UrlAEmptyFragment == UrlA \o <<"#">>

UrlBHtmlFragment == UrlBHtml \o <<"#", "f">>

UrlCPhpUpper == HttpH \o <<"/", "c", ".", "P", "H", "P">>

UrlOtherHost == <<"h", "t", "t", "p", ":", "/", "/", "g", "/", "a">>

UrlOtherScheme == <<"h", "t", "t", "p", "s", ":", "/", "/", "h", "/", "a">>

UrlRoot == HttpH \o <<"/">>

NavUrls ==
    { UrlA, UrlASlash, UrlAFragment, UrlAEmptyFragment, UrlAQuery, UrlBHtml,
      UrlBHtmlFragment, UrlCPhpUpper, UrlOtherHost, UrlOtherScheme, UrlRoot, UrlRelA }

InitNav ==
    /\ trajectory \in {<<Navigated(u)>> : u \in NavUrls}
    /\ run_human_trajectory \in BOOLEAN
    /\ initial_navigation_done = FALSE
    /\ page_url \in NavUrls \cup {<<>>, AboutBlank}
    /\ status = "NotStarted"
    /\ idx = 1
    /\ pc = "start"
    /\ events = <<>>
    /\ dispatched = <<>>

NextNav ==
    \/ Run
    \/ NextStep
    \/ Finish
    \/ PacingSleep
    \/ _handle_state_step
    \/ _perform_spa_navigation
    \/ _safe_goto
    \/ BrowserReturn

SpecNav == InitNav /\ [][NextNav]_vars

(***************************************************************************)
(* Payload shapes: one step at a time, over payloads of every shape the    *)
(* handlers test for, followed by any second step.                         *)
(***************************************************************************)
\* a numeric {x, y}
XY(x, y) == Dict([x |-> Num(x), y |-> Num(y)])

Viewport(w, h) == Dict([width |-> Num(w), height |-> Num(h)])

\* payloads for _extract_coordinates, one per branch and per precedence
CoordinatePayloads ==
    << Dict([coordinates |-> Dict([client |-> XY(10, 20)]), x |-> Num(1), y |-> Num(2)]),
       Dict([coordinates |->
                Dict([client |-> Dict([x |-> Str(<<"10">>), y |-> Num(20)]),
                      page |-> XY(30, 40), offset |-> XY(50, 60)])]),
       Dict([coordinates |-> Dict([offset |-> XY(50, 60), relative |-> XY(2, 3),
                                   viewport |-> Viewport(100, 50)])]),
       Dict([coordinates |-> Dict([relative |-> XY(2, 3), viewport |-> Viewport(100, 50)]),
             viewport |-> Viewport(7, 9), x |-> Num(1), y |-> Num(2)]),
       Dict([coordinates |-> Dict([relative |-> XY(2, 3), viewport |-> EmptyDict]),
             viewport |-> Viewport(7, 9)]),
       Dict([coordinates |-> Dict([relative |-> XY(2, 3)]), x |-> Num(1), y |-> Num(2)]),
       Dict([coordinates |->
                Dict([relative |-> XY(2, 3),
                      viewport |-> Dict([width |-> Str(<<"100">>), height |-> Num(50)])]),
             elementRect |-> Dict([left |-> Num(10), top |-> Num(20),
                                   width |-> Num(4), height |-> Num(6)])]),
       Dict([coordinates |-> Str(<<"10,20">>), x |-> Num(1), y |-> Num(2),
             elementRect |-> Dict([left |-> Num(10), top |-> Num(20)])]),
       Dict([x |-> Num(1),
             elementRect |-> Dict([left |-> Num(10), top |-> Num(20),
                                   width |-> Num(4), height |-> Num(6)])]),
       Dict([elementRect |-> Dict([left |-> Num(10), top |-> Num(20)])]),
       Dict([elementRect |-> Dict([left |-> Num(10), top |-> Num(20),
                                   width |-> Str(<<"4">>), height |-> Num(6)])]),
       Dict([elementRect |-> Dict([left |-> Str(<<"10">>), top |-> Num(20)])]),
       Dict([id |-> Str(<<"submit-btn">>)]),
       EmptyDict,
       Null,
       Str(<<"payload">>) >>

\* payloads for _build_selector
SelectorPayloads ==
    << Dict([id |-> Str(<<"f", "o", "o", " ", "b", "a", "r">>)]),
       Dict([id |-> Str(<<"a", ":", "b", "#", "c">>), className |-> Str(<<"x">>)]),
       Dict([className |-> Str(<<"a", " ", "b">>), tag |-> Str(<<"D", "I", "V">>)]),
       Dict([className |-> Str(<<"a", " ", " ", "b">>)]),
       Dict([className |-> Str(<<" ">>), tag |-> Str(<<"D", "I", "V">>)]),
       Dict([id |-> Num(7)]),
       Dict([tag |-> Str(<<"D", "I", "V">>)]) >>

\* payloads for _perform_scroll, _perform_input and _perform_keydown
ScrollPayloads ==
    << XY(0, 300), Dict([x |-> Num(0)]), Dict([x |-> Str(<<"0">>), y |-> Num(300)]),
       EmptyDict, Null, Str(<<"payload">>) >>

InputPayloads ==
    << Dict([value |-> Str(<<"hello">>), id |-> Str(<<"name">>)]),
       Dict([value |-> Str(<<>>)]),
       Dict([id |-> Str(<<"name">>)]),
       EmptyDict, Null >>

KeydownPayloads ==
    << Dict([key |-> Str(Enter)]), Dict([key |-> Str(<<>>)]), EmptyDict, Null >>

\* event types the dispatch of _run_step does not recognise, and the separator
\* in every position
OtherEventTypes ==
    << <<>>, <<"a">>, <<"a", ":", "b">>, <<"a", ":", "b", ":", "c">>,
       <<"a", ":", "b", ":", "c", ":", "d">>, <<"a", ":">>, <<":">>, <<":", ":", ":">>,
       <<"a", ":", ":", "c", ":">>,
       EventType("state", "browser", "closed"), EventType("state", "page", "unload"),
       EventType("state", "tab", "navigated"), <<"state">>,
       EventType("action", "agent", "click"), EventType("action", "user", "drag"),
       <<"action", ":", "user">>, EventType("event", "user", "click") >>

StepsOf(action, payloads) ==
    {UserAction(action, payloads[i]) : i \in DOMAIN payloads}

Shapes ==
    StepsOf("hover", CoordinatePayloads)
        \cup StepsOf("click", CoordinatePayloads)
        \cup StepsOf("click", SelectorPayloads)
        \cup StepsOf("scroll", ScrollPayloads)
        \cup StepsOf("input", InputPayloads)
        \cup StepsOf("keydown", KeydownPayloads)
        \cup {StepOf(OtherEventTypes[i], XY(1, 2)) : i \in DOMAIN OtherEventTypes}
        \cup {Navigated(UrlAQuery), Navigated(UrlRelA), Navigated(AboutBlank),
              Navigated(<<>>),
              NavigatedNoUrl, StepOf(EventType("state", "browser", "navigated"), Null),
              PageLoad, StepOf(EventType("state", "page", "domcontentloaded"), Null),
              SubmitById, SubmitNoSelector}

\* the step that follows the shape
Followers == {PageLoad, Navigated(UrlASlash), ClickAt}

InitShapes ==
    /\ trajectory \in {<<s, t>> : s \in Shapes, t \in Followers}
    /\ run_human_trajectory \in BOOLEAN
    /\ initial_navigation_done = FALSE
    /\ page_url \in InitialUrls \cup {<<>>}
    /\ status = "NotStarted"
    /\ idx = 1
    /\ pc = "start"
    /\ events = <<>>
    /\ dispatched = <<>>

SpecShapes == InitShapes /\ [][Next]_vars

\* run() can take a step: it has not returned and awaits nothing
Runnable == pc # "done" /\ Awaited

\* The same runs under the scheduling the code relies on: every browser call that
\* is awaited returns or fails (weak fairness of BrowserReturn), and the event
\* loop keeps running the coroutine (weak fairness of its steps, each of which
\* moves pc, written with Runnable for their enabling condition).
SpecLive ==
    /\ InitShapes
    /\ [][Next]_vars
    /\ WF_vars(BrowserReturn)
    /\ ([]<>~Runnable \/ []<><<Next /\ pc' # pc>>_vars)

(***************************************************************************)
(* Properties                                                              *)
(***************************************************************************)
Classified(step, category, subject, action) ==
    _split_event_type(step.event_type) = << <<category>>, <<subject>>, <<action>> >>

IsNavigated(step) == Classified(step, "state", "browser", "navigated")

IsLoadWait(step) ==
    LET parts == _split_event_type(step.event_type) IN
    /\ parts[1] = <<"state">>
    /\ parts[2] = <<"page">>
    /\ parts[3] \in {<<"domcontentloaded">>, <<"domcontentload">>, <<"loaded">>, <<"load">>}

IsUserAction(step, action) == Classified(step, "action", "user", action)

\* the step the loop is at, when there is one
AtStep == idx \in 1..Len(trajectory)

Stopped == status = "StoppedOnError"

IsSleep(e) == e.op = "sleep"

IsPacing(e) == e.op = "sleep" /\ e.arg = <<"pacing">>

Failed(e) == e.res \in {"timeout", "error"}

\* what step k has issued, in order
StepEvents(k) == SelectSeq(events, LAMBDA e : e.step = k)

OpsOf(seq) == [i \in DOMAIN seq |-> seq[i].op]

InOrder == [k \in 1..Len(dispatched) |-> k]

\* C1: fail-fast.  Once an exception has left a step (the session is in
\* StoppedOnError at step idx), run() has returned: nothing is pending, every
\* event belongs to step idx or an earlier one, no pacing sleep follows step idx,
\* and no later step has been dispatched.
C1_FailFast ==
    Stopped =>
        /\ pc = "done"
        /\ AtStep
        /\ Pending = {}
        /\ \A i \in DOMAIN events : events[i].step <= idx
        /\ \A i \in DOMAIN events : IsPacing(events[i]) => events[i].step < idx
        /\ dispatched = InOrder /\ Len(dispatched) = idx

C1_Witness ==
    /\ Stopped
    /\ idx > 1
    /\ idx < Len(trajectory)
    /\ \E i \in DOMAIN events : events[i].step = idx /\ Failed(events[i])

\* C2: strict ordering.  The events are ordered by the index of the step that
\* issued them, at most one browser call is pending, and the steps dispatched so
\* far are 1, 2, ..., k, each once and in that order.
C2_StrictOrdering ==
    /\ \A i \in 1..(Len(events) - 1) : events[i].step <= events[i + 1].step
    /\ Cardinality(Pending) <= 1
    /\ dispatched = InOrder
    /\ \A i \in DOMAIN events : events[i].step \in 1..Len(dispatched)
    /\ Len(dispatched) <= Len(trajectory)
    /\ pc \notin {"start", "loop", "done"} => idx = Len(dispatched)

C2_Witness ==
    /\ Len(dispatched) = 2
    /\ Pending # {}
    /\ \E i \in DOMAIN events : events[i].step = 1 /\ ~IsSleep(events[i])

Untargeted(step) ==
    /\ IsUserAction(step, "click")
    /\ _extract_coordinates(step.event_data_json).t = "null"
    /\ _build_selector(step.event_data_json).t = "null"

\* C3: a click whose payload resolves to neither coordinates nor a selector is
\* fatal and issues nothing; for [navigated "/a", such a click, load wait] the
\* run ends in StoppedOnError at step 2 with browser calls of step 1 only.
\* (First conjunct, by contraposition: a dispatched step that has issued a
\* call, that the loop has left, or whose run ended otherwise than in
\* StoppedOnError, is not such a click.)
C3_UntargetedClickFatal ==
    /\ \A k \in 1..Len(dispatched) :
           (idx # k \/ pc \notin {"click", "done"} \/ (pc = "done" /\ ~Stopped)
                \/ StepEvents(k) # <<>>) =>
               ~Untargeted(trajectory[k])
    /\ (trajectory = TrajFatalClick /\ pc = "done") =>
           /\ Stopped
           /\ idx = 2
           /\ dispatched = <<1, 2>>
           /\ \E i \in DOMAIN events : ~IsSleep(events[i])
           /\ \A i \in DOMAIN events : events[i].step = 1

C3_Witness ==
    /\ trajectory = TrajFatalClick
    /\ Stopped
    /\ OpsOf(events) = <<"goto", "sleep">>

AllSucceeded == \A i \in DOMAIN events : events[i].res = "ok"

\* C4: [navigated "/a", click by id, load wait] without human pacing and with
\* every browser call succeeding ends in Completed after exactly goto, selector
\* click and load-state wait, in that order, each followed by a 100 ms pacing
\* sleep.
C4_SelectorClickScenario ==
    (/\ trajectory = TrajSelectorClick
     /\ ~run_human_trajectory
     /\ pc = "done"
     /\ AllSucceeded) =>
        /\ status = "Completed"
        /\ OpsOf(events) =
               <<"goto", "sleep", "locator_click", "sleep", "wait_for_load_state",
                 "sleep">>
        /\ [i \in DOMAIN events |-> events[i].step] = <<1, 1, 2, 2, 3, 3>>
        /\ events[1].target = UrlRelA
        /\ events[3].target = <<"#", "submit-btn">>
        /\ events[3].ms = 5000
        /\ events[5].arg = <<"load">>
        /\ \A i \in {2, 4, 6} : IsPacing(events[i]) /\ events[i].ms = 100

C4_Witness ==
    /\ trajectory = TrajSelectorClick
    /\ ~run_human_trajectory
    /\ status = "Completed"
    /\ AllSucceeded
    /\ Len(events) = 6

NavTarget == SafeGet(payload, "url")

\* _handle_state_step is about to process a navigated step whose target equals
\* the page's URL once the trailing slashes of both are stripped
AtSameUrl ==
    /\ pc = "state"
    /\ IsNavigated(Step)
    /\ Truthy(NavTarget)
    /\ RStrip(page_url, "/") = RStrip(NavTarget.v, "/")

\* C5 as stated: a navigated step to the URL the page shows (trailing slashes
\* aside) issues no browser call, whatever initial_navigation_done is.
C5_SameUrlNoOpAlways == [][AtSameUrl => events' = events]_vars

\* C5: a navigated step to the URL the page shows (trailing slashes aside) is a
\* no-op when initial_navigation_done is true and the page's URL is not empty:
\* it issues no browser call, leaves the flag alone and returns.
C5_SameUrlNoOp ==
    [][(AtSameUrl /\ initial_navigation_done /\ page_url # <<>>) =>
           /\ events' = events
           /\ pc' = "pace"
           /\ UNCHANGED <<initial_navigation_done, page_url>>]_vars

C5_Witness ==
    /\ pc = "pace"
    /\ IsNavigated(Step)
    /\ Truthy(NavTarget)
    /\ NavTarget.v # AboutBlank
    /\ initial_navigation_done
    /\ page_url # NavTarget.v
    /\ RStrip(page_url, "/") = RStrip(NavTarget.v, "/")
    /\ StepEvents(idx) = <<>>

\* the navigated step has issued its first call and the browser has not
\* answered: page_url is still the URL the classification read
JustClassified == Len(events) = 1 /\ Pending = {1} /\ IsNavigated(Step)

CurrentParts == urlparse(page_url)

TargetParts == urlparse(events[1].target)

SameOrigin ==
    /\ CurrentParts.scheme = TargetParts.scheme
    /\ CurrentParts.netloc = TargetParts.netloc

SamePathQuery ==
    /\ CurrentParts.path = TargetParts.path
    /\ CurrentParts.query = TargetParts.query

StaticTarget ==
    \E ext \in static_extensions : EndsWith(Lower(TargetParts.path), ext)

AsSpa == events[1].op = "evaluate_pushState"

AsReal == events[1].op = "goto"

BlankPage == page_url = <<>> \/ page_url = AboutBlank

HandlerDone == AtStep /\ (pc = "pace" \/ Stopped)

\* C7 as stated: a submit step raises only after the fourth tactic (the first
\* form) has been tried.
C7_FatalOnlyAfterFourth ==
    (Stopped /\ IsUserAction(Step, "submit")) =>
        \E i \in DOMAIN events : events[i].step = idx /\ events[i].target = FirstForm

\* C7: in a submit step a tactic is tried only when the locator before it
\* matched no element; the press or click of a tactic follows a count that found
\* its element; and the step is fatal exactly when a browser call of the chain
\* raised (a count, the press or the click, of whichever tactic) or when the
\* last locator, the first form, matched no element either.
C7_SubmitChain ==
    (AtStep /\ IsUserAction(Step, "submit")) =>
        LET E == StepEvents(idx) IN
        /\ \A k \in 1..(Len(E) - 1) :
               /\ E[k].op = "locator_count" /\ E[k].res = "ok"
               /\ E[k + 1].op = "locator_count" => E[k].n = 0
               /\ E[k + 1].op # "locator_count" =>
                      E[k].n > 0 /\ E[k + 1].target = E[k].target
        /\ HandlerDone =>
               /\ E # <<>>
               /\ Stopped <=>
                      \/ Failed(E[Len(E)])
                      \/ /\ E[Len(E)].op = "locator_count"
                         /\ E[Len(E)].target = FirstForm
                         /\ E[Len(E)].n = 0

C7_Witness ==
    /\ Stopped
    /\ IsUserAction(Step, "submit")
    /\ OpsOf(StepEvents(idx)) = <<"locator_count", "locator_press">>
    /\ StepEvents(idx)[2].target # FirstForm
    /\ StepEvents(idx)[2].res = "timeout"

\* the selector-based fill of an input step has timed out
SelectorFillTimedOut(k) ==
    /\ events[k].op = "locator_fill"
    /\ events[k].target # Focused
    /\ events[k].res = "timeout"

\* C8: when the selector-based fill of an input step times out, the step does
\* not fail before the focused element has been tried: the next call of the step
\* looks the focused element up, a focused element that is found is filled with
\* the same value (2 s timeout), and when that fill succeeds the step returns,
\* its pacing sleep follows and the replay goes on.
C8_InputFallbackOnTimeout ==
    \A k \in DOMAIN events :
        SelectorFillTimedOut(k) =>
            LET s == events[k].step
                n == Len(events)
            IN  /\ k = n => (idx = s /\ pc = "input_fill" /\ ~Stopped)
                /\ k < n =>
                       /\ events[k + 1].step = s
                       /\ events[k + 1].op = "locator_count"
                       /\ events[k + 1].target = Focused
                /\ (k + 1 = n /\ events[n].res = "ok" /\ events[n].n > 0) =>
                       (idx = s /\ pc = "input_count" /\ ~Stopped)
                /\ (k + 2 <= n /\ events[k + 1].res = "ok" /\ events[k + 1].n > 0) =>
                       /\ events[k + 2].step = s
                       /\ events[k + 2].op = "locator_fill"
                       /\ events[k + 2].target = Focused
                       /\ events[k + 2].arg = events[k].arg
                       /\ events[k + 2].ms = 2000
                /\ (/\ k + 2 <= n
                    /\ events[k + 2].step = s
                    /\ events[k + 2].res = "ok"
                    /\ ~(idx = s /\ pc = "input_focus_fill")) =>
                       /\ ~(Stopped /\ idx = s)
                       /\ (idx = s /\ pc = "pace") \/ idx > s
                       /\ idx > s => (k + 3 <= n /\ IsPacing(events[k + 3])
                                         /\ events[k + 3].step = s)

C8_Witness ==
    \E k \in DOMAIN events :
        /\ SelectorFillTimedOut(k)
        /\ k + 3 <= Len(events)
        /\ events[k + 2].op = "locator_fill"
        /\ events[k + 2].res = "ok"
        /\ Len(dispatched) > events[k].step

C11_HoverNeverFatal == ~(Stopped /\ AtStep /\ IsUserAction(Step, "hover"))

\* C12 as stated: a scroll step is never fatal.  The session is never in
\* StoppedOnError at an action:user:scroll step, whatever the payload (a mapping
\* or not) and whatever the scroll evaluate answered, and a step whose x or y is
\* not numeric issues no browser call.
C12_ScrollNeverFatal ==
    (AtStep /\ IsUserAction(Step, "scroll")) =>
        /\ ~Stopped
        /\ ~(IsNum(SafeGet(payload, "x")) /\ IsNum(SafeGet(payload, "y"))) =>
               StepEvents(idx) = <<>>

\* the steps the handlers skip for want of an optional field
SilentSkip(step) ==
    LET p == step.event_data_json IN
    \/ IsUserAction(step, "input") /\ SafeGet(p, "value").t = "null"
    \/ IsUserAction(step, "keydown") /\ ~Truthy(SafeGet(p, "key"))
    \/ IsUserAction(step, "hover") /\ _extract_coordinates(p).t = "null"
    \/ IsNavigated(step)
          /\ (~Truthy(SafeGet(p, "url")) \/ SafeGet(p, "url").v = AboutBlank)

PacingEvent ==
    Sleep(IF run_human_trajectory THEN HumanPacingMs ELSE DefaultPacingMs, "pacing")

\* C13: silent skip.  An input step with no value, a keydown step with no key
\* (absent or empty), a hover step whose payload yields no coordinates and a
\* navigated step whose url is missing or about:blank: the handler returns at
\* once, with no browser call, no exception and initial_navigation_done as it
\* was; the pacing sleep follows, and then the loop goes on to the next step.
C13_SilentSkip ==
    [][(AtStep /\ SilentSkip(Step) /\ pc \notin {"start", "loop", "done"}) =>
           /\ UNCHANGED <<initial_navigation_done, status, page_url>>
           /\ status = "Running"
           /\ \/ pc # "pace" /\ pc' = "pace" /\ events' = events /\ idx' = idx
              \/ /\ pc = "pace"
                 /\ StepEvents(idx) = <<>>
                 /\ events' = Append(events, PacingEvent)
                 /\ idx' = idx + 1
                 /\ pc' = "loop"]_vars

C13_Witness ==
    /\ Len(dispatched) = 2
    /\ SilentSkip(trajectory[1])
    /\ IsUserAction(trajectory[1], "hover")
    /\ trajectory[1].event_data_json # EmptyDict
    /\ OpsOf(StepEvents(1)) = <<"sleep">>
    /\ ~initial_navigation_done

FooBar == <<"f", "o", "o", " ", "b", "a", "r">>

\* the selector-based calls of the steps whose payload carries a string id
IdSelectorCalls ==
    {i \in DOMAIN events :
        /\ events[i].op \in {"locator_click", "locator_fill", "locator_count"}
        /\ events[i].target \notin {Focused, SubmitButtons, FirstForm}
        /\ SafeGet(trajectory[events[i].step].event_data_json, "id").t = "str"}

\* C14 as stated: the selector built from an id escapes the space.  For
\* id = "foo bar" the selector is "#foo\ bar", and every space of a selector
\* built from an id is preceded by a backslash.
C14_IdSpaceEscaped ==
    \A i \in IdSelectorCalls :
        LET sel == events[i].target
            id == SafeGet(trajectory[events[i].step].event_data_json, "id").v
        IN  /\ id = FooBar => sel = <<"#", "f", "o", "o", "\\", " ", "b", "a", "r">>
            /\ \A j \in DOMAIN sel : sel[j] = " " => (j > 1 /\ sel[j - 1] = "\\")

\* a numeric point under key k of the mapping d, or nothing
PointAt(d, k) ==
    LET q == SafeGet(d, k) IN
    IF q.t = "dict" /\ SafeGet(q, "x").t = "num" /\ SafeGet(q, "y").t = "num"
    THEN Point(q.v["x"].v, q.v["y"].v) ELSE Null

\* coordinates.relative scaled by the viewport given
ScaledBy(rel, vp) ==
    IF rel.t = "point" /\ SafeGet(vp, "width").t = "num" /\ SafeGet(vp, "height").t = "num"
    THEN Point(rel.x * vp.v["width"].v, rel.y * vp.v["height"].v) ELSE Null

\* the centre of elementRect; a width or height that is absent counts as 0, one
\* that is present and not a number leaves the centre undefined
CentreOf(rect) ==
    LET lt == PointAt(Dict([r |-> Dict([x |-> SafeGet(rect, "left"),
                                         y |-> SafeGet(rect, "top")])]), "r")
        w == IF rect.t = "dict" /\ "width" \in DOMAIN rect.v THEN rect.v["width"] ELSE Num(0)
        h == IF rect.t = "dict" /\ "height" \in DOMAIN rect.v THEN rect.v["height"] ELSE Num(0)
    IN  IF lt.t # "point" THEN Null
        ELSE IF w.t = "num" /\ h.t = "num" /\ w.v % 2 = 0 /\ h.v % 2 = 0
        THEN Point(lt.x + w.v \div 2, lt.y + h.v \div 2)
        ELSE [t |-> "undefined"]

\* the candidates of the precedence, in order
Candidates(p) ==
    LET c == SafeGet(p, "coordinates")
        vp == IF Truthy(SafeGet(c, "viewport")) THEN SafeGet(c, "viewport")
              ELSE SafeGet(p, "viewport")
    IN  << PointAt(c, "client"), PointAt(c, "page"), PointAt(c, "offset"),
           ScaledBy(PointAt(c, "relative"), vp),
           PointAt(Dict([flat |-> p]), "flat"),
           CentreOf(SafeGet(p, "elementRect")) >>

\* first match wins
Precedence(p) ==
    LET cand == Candidates(p)
        hit == {i \in DOMAIN cand : cand[i].t # "null"}
    IN  IF hit = {} THEN Null ELSE cand[CHOOSE i \in hit : \A j \in hit : i <= j]

PointerSteps ==
    {k \in 1..Len(dispatched) :
        /\ IsUserAction(trajectory[k], "hover") \/ IsUserAction(trajectory[k], "click")
        /\ k < idx \/ pc \notin {"hover", "click"}}

\* C15: coordinate extraction follows the precedence client, page, offset,
\* relative scaled by a numeric viewport, flat x/y, centre of elementRect, first
\* match wins.  Every pointer call of a hover or click step goes to the point
\* the precedence gives for the step's payload, a step whose payload gives a
\* point moves the pointer there, and a step whose payload matches none issues
\* no pointer call.
C15_CoordinatePrecedence ==
    /\ \A i \in DOMAIN events :
           events[i].op \in {"mouse_move", "mouse_click"} =>
               Precedence(trajectory[events[i].step].event_data_json) =
                   Point(events[i].x, events[i].y)
    /\ \A k \in PointerSteps :
           LET want == Precedence(trajectory[k].event_data_json)
               E == StepEvents(k)
           IN  /\ want.t = "point" =>
                      (E # <<>> /\ E[1] = [E[1] EXCEPT !.op = "mouse_move",
                                                      !.x = want.x, !.y = want.y])
               /\ want.t = "null" =>
                      \A j \in DOMAIN E : E[j].op \notin {"mouse_move", "mouse_click"}

C15_Witness ==
    /\ trajectory[1] = UserAction("hover", CoordinatePayloads[2])
    /\ Len(events) = 1
    /\ events[1].op = "mouse_move"
    /\ events[1].x = 30 /\ events[1].y = 40

\* the positions of the separator in s
Colons(s) == {i \in DOMAIN s : s[i] = ":"}

\* the i-th smallest element of a set of numbers
RECURSIVE Nth(_, _)
Nth(S, i) ==
    LET m == CHOOSE x \in S : \A y \in S : x <= y
    IN  IF i = 1 THEN m ELSE Nth(S \ {m}, i - 1)

\* s[a..b], empty when a > b
Slice(s, a, b) == IF a > b THEN <<>> ELSE SubSeq(s, a, b)

JoinColon(a, b) == a \o <<":">> \o b

\* C16: step classification is total and pads with empty strings.  Every event
\* type gives three components: with no colon (s, "", ""); with one colon the
\* text before it, the text after it and ""; with two or more the text before
\* the first colon, the text between the first two, and everything after the
\* second.  Joining the components that are not padding with ':' gives the
\* event type back.
C16_SplitEventType ==
    \A k \in 1..Len(dispatched) :
        LET s == trajectory[k].event_type
            r == _split_event_type(s)
            n == Cardinality(Colons(s))
        IN  /\ Len(r) = 3
            /\ n = 0 => r = <<s, <<>>, <<>>>> /\ r[1] = s
            /\ n = 1 => /\ r = <<Slice(s, 1, Nth(Colons(s), 1) - 1),
                                 Slice(s, Nth(Colons(s), 1) + 1, Len(s)), <<>>>>
                        /\ JoinColon(r[1], r[2]) = s
            /\ n >= 2 => /\ r = <<Slice(s, 1, Nth(Colons(s), 1) - 1),
                                  Slice(s, Nth(Colons(s), 1) + 1, Nth(Colons(s), 2) - 1),
                                  Slice(s, Nth(Colons(s), 2) + 1, Len(s))>>
                         /\ JoinColon(JoinColon(r[1], r[2]), r[3]) = s
            /\ s = <<"a", ":", "b", ":", "c">> => r = << <<"a">>, <<"b">>, <<"c">> >>
            /\ s = <<"a", ":", "b">> => r = << <<"a">>, <<"b">>, <<>> >>
            /\ s = <<"a">> => r = << <<"a">>, <<>>, <<>> >>
            /\ s = <<>> => r = << <<>>, <<>>, <<>> >>

C16_Witness ==
    /\ Len(dispatched) >= 1
    /\ trajectory[1].event_type = <<"a", ":", "b", ":", "c", ":", "d">>
    /\ _split_event_type(trajectory[1].event_type) = << <<"a">>, <<"b">>, <<"c", ":", "d">> >>
    /\ pc = "pace"

\* the handler of step k has returned
Handled(k) == k \in 1..Len(dispatched) /\ (k < idx \/ (k = idx /\ pc = "pace"))

\* C17 as stated: after a navigated step has been handled the flag is true,
\* whichever branch was taken, the skips included.
C17_FlagAfterNavigated ==
    \A k \in 1..Len(dispatched) :
        (Handled(k) /\ IsNavigated(trajectory[k])) => initial_navigation_done

\* C17: after a navigated step whose url is present and not about:blank has
\* been handled, initial_navigation_done is true: after a SPA route change,
\* after its fallback to goto, after a real navigation, whether or not the
\* browser call succeeded, and after the skip of an unnecessary navigation.  A
\* step skipped because its url is missing or about:blank leaves the flag as it
\* was, false included.
C17_FlagAfterNavigation ==
    \A k \in 1..Len(dispatched) :
        (Handled(k) /\ IsNavigated(trajectory[k])) =>
            /\ ~SilentSkip(trajectory[k]) => initial_navigation_done
            /\ (k = 1 /\ idx = 1 /\ SilentSkip(trajectory[k])) =>
                   (initial_navigation_done <=> page_url \notin {<<>>, AboutBlank})

C17_Witness ==
    /\ Handled(1)
    /\ IsNavigated(trajectory[1])
    /\ Len(events) = 2
    /\ OpsOf(events) = <<"evaluate_pushState", "goto">>
    /\ Failed(events[1]) /\ Failed(events[2])
    /\ initial_navigation_done

\* seq is an initial part of full
IsPrefix(seq, full) == Len(seq) <= Len(full) /\ seq = SubSeq(full, 1, Len(seq))

\* C18: SPA route change execution.  A History-API evaluate that succeeded is
\* followed by the 300 ms settle sleep and by no goto in its step; one that
\* failed is followed by exactly one goto, to the same target and waiting for
\* domcontentloaded; and whatever that goto answers the step is not fatal: its
\* pacing sleep follows.
C18_SpaExecution ==
    \A i \in DOMAIN events :
        (events[i].op = "evaluate_pushState" /\ events[i].res # "pending") =>
            LET k == events[i].step
                E == StepEvents(k)
            IN  /\ E[1] = events[i]
                /\ ~(Stopped /\ idx = k)
                /\ Len(E) = 1 => (idx = k /\ pc = "spa")
                /\ events[i].res = "ok" =>
                       /\ IsPrefix(OpsOf(E), <<"evaluate_pushState", "sleep", "sleep">>)
                       /\ Len(E) >= 2 => (E[2].ms = SpaSettleMs /\ ~IsPacing(E[2]))
                       /\ Len(E) >= 3 => IsPacing(E[3])
                /\ Failed(events[i]) =>
                       /\ IsPrefix(OpsOf(E), <<"evaluate_pushState", "goto", "sleep">>)
                       /\ Len(E) >= 2 =>
                              /\ E[2].target = events[i].target
                              /\ E[2].arg = <<"domcontentloaded">>
                       /\ Len(E) >= 3 => (IsPacing(E[3]) /\ E[2].res # "pending")
                       /\ (Len(E) = 2 /\ E[2].res # "pending") =>
                              (idx = k /\ pc \in {"goto", "pace"})

C18_Witness ==
    /\ OpsOf(StepEvents(1)) = <<"evaluate_pushState", "goto", "sleep">>
    /\ events[1].res = "error"
    /\ events[2].res = "timeout"
    /\ events[2].target = UrlAQuery
    /\ Len(dispatched) = 2

\* what step k has issued, its pacing sleep left out
NonPacing(k) == SelectSeq(StepEvents(k), LAMBDA e : ~IsPacing(e))

\* C19: a click step uses exactly one strategy.  When the payload resolves to
\* coordinates the step issues pointer move, the 100 ms settle sleep and pointer
\* click at the same point, as far as it gets: a failure of the move or of the
\* click is fatal, and a selector click is never issued, whatever id or
\* className the payload has.  When no coordinates resolve and a selector does,
\* the step issues exactly one selector click with a 5 s timeout, and its
\* timeout is fatal.
C19_ClickOneStrategy ==
    \A k \in 1..Len(dispatched) :
        (IsUserAction(trajectory[k], "click") /\ (k < idx \/ pc # "click")) =>
            LET p == trajectory[k].event_data_json
                coords == _extract_coordinates(p)
                selector == _build_selector(p)
                N == NonPacing(k)
                fatal == Stopped /\ idx = k
            IN  /\ coords.t = "point" =>
                       /\ N # <<>>
                       /\ IsPrefix(OpsOf(N), <<"mouse_move", "sleep", "mouse_click">>)
                       /\ N[1].x = coords.x /\ N[1].y = coords.y
                       /\ Len(N) # 2
                       /\ Len(N) = 3 =>
                              /\ N[1].res = "ok"
                              /\ N[2].ms = ClickSettleMs
                              /\ N[3].x = coords.x /\ N[3].y = coords.y
                       /\ (Len(N) = 1 /\ N[1].res = "ok") => (idx = k /\ pc = "click_move")
                       /\ Failed(N[Len(N)]) =>
                              (idx = k /\ (fatal \/ pc \in {"click_move", "click_click"}))
                       /\ fatal => Failed(N[Len(N)])
                /\ (coords.t = "null" /\ Truthy(selector)) =>
                       /\ Len(N) = 1
                       /\ N[1].op = "locator_click"
                       /\ N[1].target = selector.v
                       /\ N[1].ms = 5000
                       /\ N[1].res = "timeout" =>
                              /\ idx = k /\ (fatal \/ pc = "click_selector")
                              /\ NonPacing(k) = StepEvents(k)

C19_Witness ==
    /\ idx = 2
    /\ trajectory[2] = ClickAt
    /\ Stopped
    /\ OpsOf(NonPacing(2)) = <<"mouse_move", "sleep", "mouse_click">>
    /\ Failed(NonPacing(2)[3])

\* the positions of the pacing sleeps of step k
PacingOf(k) == {i \in DOMAIN events : events[i].step = k /\ IsPacing(events[i])}

\* C20: pacing.  Every step that was processed without an unhandled exception,
\* the skipped and the unrecognised ones included, is followed by exactly one
\* pacing sleep, of 200 ms when run_human_trajectory is true and 100 ms
\* otherwise, which comes after every call of the step and before every call of
\* the next step; the next step is dispatched only after it; and no pacing sleep
\* follows a step that raised.
C20_Pacing ==
    \A k \in 1..Len(dispatched) :
        /\ k < idx =>
               /\ Cardinality(PacingOf(k)) = 1
               /\ \A i \in PacingOf(k) :
                      /\ events[i].ms = IF run_human_trajectory THEN 200 ELSE 100
                      /\ events[i].res = "ok"
                      /\ \A j \in DOMAIN events :
                             /\ (events[j].step = k /\ j # i) =>
                                    (j < i /\ events[j].res # "pending")
                             /\ events[j].step > k => j > i
        /\ k = idx => PacingOf(k) = {}
        /\ k > 1 => (k - 1 < idx /\ PacingOf(k - 1) # {})
        /\ (pc = "done" /\ status = "Completed") => k < idx
        /\ Stopped => (k <= idx /\ PacingOf(idx) = {})

C20_Witness ==
    /\ run_human_trajectory
    /\ trajectory[1].event_type = <<"a", ":", "b", ":", "c", ":", "d">>
    /\ Len(dispatched) = 2
    /\ Len(events) = 1
    /\ IsPacing(events[1]) /\ events[1].ms = 200 /\ events[1].step = 1

\* the terminal states of a session
Terminal == status \in {"Completed", "StoppedOnError"}

\* the pacing sleeps run() has slept: one per step that returned
Paced == Len(SelectSeq(events, IsPacing))

\* C21: termination.  When every browser call returns or fails, every run
\* reaches Completed or StoppedOnError.  The two exclude each other and a
\* terminal session stays as it is: it reaches Completed exactly when every step
\* of the trajectory was dispatched and returned (each has its pacing sleep), and
\* StoppedOnError exactly when the step it stopped at did not return; nothing is
\* pending when the session is terminal and no browser call or sleep is issued
\* afterwards.
C21_Termination ==
    /\ <>Terminal
    /\ [][/\ Terminal => status' = status /\ events' = events
          /\ (Terminal =>
                /\ pc = "done"
                /\ Pending = {}
                /\ (status = "Completed") =
                       (Paced = Len(trajectory) /\ Len(dispatched) = Len(trajectory))
                /\ (status = "StoppedOnError") =
                       (/\ AtStep
                        /\ Len(dispatched) = idx
                        /\ Paced = idx - 1
                        /\ StepEvents(idx) = <<>> \/ ~IsPacing(Last)))']_vars

\* a run that completed although a browser call of one of its steps failed
C21_Witness ==
    /\ status = "Completed"
    /\ Len(dispatched) = 2
    /\ \E i \in DOMAIN events : Failed(events[i])

UserActions ==
    {<<"click">>, <<"hover">>, <<"scroll">>, <<"input">>, <<"keydown">>, <<"submit">>}

\* the steps no handler is written for
Unrecognised(step) ==
    LET parts == _split_event_type(step.event_type)
        category == parts[1]
        subject == parts[2]
        action == parts[3]
    IN  \/ category \notin {<<"state">>, <<"action">>}
        \/ category = <<"action">> /\ subject # <<"user">>
        \/ category = <<"action">> /\ subject = <<"user">> /\ action \notin UserActions
        \/ category = <<"state">> /\ ~IsNavigated(step) /\ ~IsLoadWait(step)

\* C22: unrecognised steps are silently skipped.  A step whose category is
\* neither state nor action, an action step whose subject is not user, an
\* action:user step with another action than click, hover, scroll, input,
\* keydown and submit, and a state step that is neither browser:navigated nor a
\* page load wait: once dispatched, the step issues no browser call, raises
\* nothing and leaves initial_navigation_done and the page as they were; only
\* the pacing sleep of run() follows, and then the next step.
C22_UnrecognisedSkipped ==
    [][(AtStep /\ Unrecognised(Step) /\ pc \notin {"start", "loop", "done"}) =>
           /\ UNCHANGED <<initial_navigation_done, status, page_url>>
           /\ status = "Running"
           /\ \/ pc # "pace" /\ pc' = "pace" /\ events' = events /\ idx' = idx
              \/ /\ pc = "pace"
                 /\ StepEvents(idx) = <<>>
                 /\ events' = Append(events, PacingEvent)
                 /\ idx' = idx + 1
                 /\ pc' = "loop"]_vars

\* an action step of another subject than user, with a click's payload, has been
\* passed over and the next step dispatched
C22_Witness ==
    /\ Len(dispatched) = 2
    /\ trajectory[1].event_type = EventType("action", "agent", "click")
    /\ _extract_coordinates(trajectory[1].event_data_json).t = "point"
    /\ OpsOf(StepEvents(1)) = <<"sleep">>
    /\ ~initial_navigation_done

\* C23: initial_navigation_done is monotone and narrowly written.  It starts
\* false; the entry of run() sets it exactly when the page's URL is neither
\* empty nor about:blank; after that only a step taken while a
\* state:browser:navigated step is current changes it, and only from false to
\* true; no step, no failing step and no end of the run takes it back to false.
C23_FlagMonotone ==
    /\ ~initial_navigation_done
    /\ [][/\ initial_navigation_done => initial_navigation_done'
          /\ pc = "start" =>
                initial_navigation_done' = (page_url # <<>> /\ page_url # AboutBlank)
          /\ (pc # "start" /\ initial_navigation_done' # initial_navigation_done) =>
                (AtStep /\ IsNavigated(Step) /\ Len(dispatched) = idx)]_vars

\* from a blank page: the navigated step has set the flag, the click after it
\* has failed and stopped the run, and the flag is still set
C23_Witness ==
    /\ trajectory[1] = Navigated(UrlAQuery)
    /\ events # <<>>
    /\ events[1].op = "goto"
    /\ Stopped
    /\ idx = 2
    /\ initial_navigation_done

\* a navigated step issues its first browser call
NavigationIssued ==
    /\ AtStep
    /\ IsNavigated(Step)
    /\ pc = "state"
    /\ events' # events

LinkFollowed ==
    \E i \in DOMAIN events :
        /\ events[i].op \in {"mouse_click", "locator_click"}
        /\ events[i].res = "ok"
        /\ events[i].step < idx

====
